---- MODULE Spec2Model ----
(***************************************************************************)
(* A model of generate_all_repos_raw_urls.py: the rate-limit-aware HTTP    *)
(* client (github_get), the paginated repository lister                    *)
(* (list_repos_for_user), the tree walker (get_tree_recursive), the row    *)
(* builder (build_raw_rows_for_repo) and the thread-pool fan-out with      *)
(* aggregation and export in main.                                         *)
(*                                                                         *)
(* Strings that the program concatenates with "/" are sequences of their   *)
(* segments ("refs/heads/dev" is <<"refs", "heads", "dev">>), so that      *)
(* f-string formatting is sequence concatenation.  A Python value that may *)
(* be None is None == <<>> or Some(v) == <<v>>.  A dict is a record;       *)
(* dict.get is Get.                                                        *)
(***************************************************************************)
EXTENDS Integers, Sequences, FiniteSets, TLC

\* ------------------------------------------------------------------ bounds
\* The largest account (number of repositories) of the fan-out specifications.
MaxRepos == 3
\* The largest --workers value.
MaxWorkers == 2
\* The largest number of full listing pages an account of SpecList fills.
MaxPages == 2
\* The largest account of SpecWalk.
MaxWalks == 1
TicksPerSecond == 2
MaxLag == 2
MaxReset == 14

\* --------------------------------------------------------------- constants
PER_PAGE == 100
DEFAULT_RESET == 60
MIN_WAIT == 5
MARGIN == 3
HTTP_OK == 200
HTTP_FORBIDDEN == 403
HTTP_NOT_FOUND == 404
HTTP_SERVER_ERROR == 500

GITHUB_API == "https://api.github.com"
RAW_HOST == "https://raw.githubusercontent.com"
\* The positional CLI argument: the account whose repositories are exported.
Owner == "uppermoon77"

None == <<>>
Some(v) == <<v>>
Get(d, k) == IF k \in DOMAIN d THEN Some(d[k]) ELSE None

Min(a, b) == IF a < b THEN a ELSE b

\* ---------------------------------------------------------- the upstream
\* The i-th repository record of an account, as the listing endpoint serves it.
\* default_branch is a name, the empty string, or missing; names are unique.
RepoItem(i) ==
  [name |-> i,
   default_branch |-> CASE i % 3 = 1 -> Some(<<"dev">>)
                        [] i % 3 = 2 -> None
                        [] OTHER -> Some(<<>>),
   private |-> (i % 2 = 0)]

\* An account of n repositories, the first of them RepoItem(first).
Account(first, n) == [i \in 1..n |-> RepoItem(first + i - 1)]

\* The items of one listing page (1-based) of an account.
PageItems(acc, p) == SubSeq(acc, (p - 1) * PER_PAGE + 1, Min(p * PER_PAGE, Len(acc)))

\* Tree nodes and the 200 bodies of the tree endpoint. A body is a tree document
\* (nodes with type, path and an optional size) or a JSON value of another shape
\* ("other": iterating its tree raises).
Node(type, path, size) == [type |-> type, path |-> path, size |-> size]

MixedTree ==
  <<Node("blob", <<"README.md">>, Some(12)),
    Node("tree", <<"src">>, None),
    Node("blob", <<"src", "a b.py">>, Some(0)),
    Node("commit", <<"vendor">>, None)>>

DirOnlyTree == <<Node("tree", <<"docs">>, None), Node("commit", <<"sub">>, None)>>

Doc(kind, nodes) == [kind |-> kind, tree |-> nodes]
NoDoc == Doc("none", <<>>)
TreeDocs == {Doc("tree", MixedTree), Doc("tree", DirOnlyTree), Doc("other", <<>>)}

\* What one GET can end in: a response (status, the X-RateLimit-Remaining header,
\* the body) or a transport-level exception raised by requests.get.
Response(status, remaining, body) ==
  [exc |-> FALSE, status |-> status, remaining |-> remaining, body |-> body]
Transport(body) == [exc |-> TRUE, status |-> 0, remaining |-> None, body |-> body]

\* The part of an outcome that the call history keeps.
Hd(o) == [exc |-> o.exc, status |-> o.status, remaining |-> o.remaining]
NoResponse == [exc |-> FALSE, status |-> 0, remaining |-> None]

\* The status/header pairs the upstream may answer with: under "core" the four
\* cases the callers tell apart (success, not found, rate limit, another
\* failure); under "full" also a 403 with quota left, a 403 without the header,
\* and a 200 and a 404 that use the quota up; under "plain" an upstream that
\* never answers 404.
CoreAnswers ==
  {<<HTTP_OK, Some("42")>>, <<HTTP_NOT_FOUND, Some("42")>>,
   <<HTTP_FORBIDDEN, Some("0")>>, <<HTTP_SERVER_ERROR, None>>}

Answers(alpha) ==
  IF alpha = "full"
    THEN CoreAnswers \cup {<<HTTP_FORBIDDEN, Some("42")>>, <<HTTP_FORBIDDEN, None>>,
                           <<HTTP_OK, Some("0")>>, <<HTTP_NOT_FOUND, Some("0")>>}
  ELSE IF alpha = "plain"
    THEN {a \in CoreAnswers : a[1] # HTTP_NOT_FOUND}
    ELSE CoreAnswers

ListOutcomes(acc, p) ==
  {Response(a[1], a[2], IF a[1] = HTTP_OK THEN PageItems(acc, p) ELSE <<>>) :
      a \in CoreAnswers} \cup {Transport(<<>>)}

TreeOutcomes(alpha) ==
  {Response(a[1], a[2], NoDoc) : a \in {b \in Answers(alpha) : b[1] # HTTP_OK}}
  \cup {Response(a[1], a[2], d) : a \in {b \in Answers(alpha) : b[1] = HTTP_OK}, d \in TreeDocs}
  \cup {Transport(NoDoc)}

\* ------------------------------------------------------------- github_get
\* One activation of github_get: pc is "send1" (before the GET of line 35),
\* "sleep" (in time.sleep, line 42), "send2" (before the GET of line 43),
\* "return" (line 44) or "raise" (requests.get raised); r is the response bound
\* to r.
Idle == [pc |-> "idle", url |-> <<>>, r |-> NoResponse]
Call(url) == [pc |-> "send1", url |-> url, r |-> NoResponse]

IsRateLimitedBug(r) == r.status = HTTP_FORBIDDEN
IsRateLimited(r) == r.status = HTTP_FORBIDDEN /\ r.remaining = Some("0")

\* Line 39: int(r.headers.get("X-RateLimit-Reset", time.time() + 60)) at tick t;
\* header is the header's number, None when the header is missing.
Seconds(t) == t \div TicksPerSecond
ResetOf(header, t) ==
  IF header = None THEN Seconds(t + DEFAULT_RESET * TicksPerSecond) ELSE header[1]

\* Line 40: max(5, reset - int(time.time()) + 3) at tick t.
Max(a, b) == IF a >= b THEN a ELSE b
WaitBug(reset, t) == Max(MIN_WAIT, reset - Seconds(t))
Wait(reset, t) == Max(MIN_WAIT, reset - Seconds(t) + MARGIN)

\* The activation after the GET it was about to issue ended in outcome o.
github_get_loop(act, o) ==
  IF o.exc THEN [act EXCEPT !.pc = "raise"]
  ELSE IF IsRateLimited(o)
    THEN [act EXCEPT !.pc = "sleep", !.r = Hd(o)]
  ELSE [act EXCEPT !.pc = "return", !.r = Hd(o)]
github_get(act, o) ==
  IF o.exc THEN [act EXCEPT !.pc = "raise"]
  ELSE IF act.pc = "send1" /\ IsRateLimited(o)
    THEN [act EXCEPT !.pc = "sleep", !.r = Hd(o)]
  ELSE [act EXCEPT !.pc = "return", !.r = Hd(o)]

\* The sleep of line 42 ends.
github_get_wake(act) == [act EXCEPT !.pc = "send2"]

\* The history h of a caller's github_get calls, after the activation act issued
\* a GET that ended in o and became a: one entry per call, with its URL, the
\* outcomes of its GETs in order and the response it returned (None while it has
\* not returned, or when it raised).
Recorded(h, act, a, o) ==
  LET sent == IF act.pc = "send1"
                THEN Append(h, [url |-> act.url, gets |-> <<Hd(o)>>, ret |-> None])
                ELSE [h EXCEPT ![Len(h)].gets = Append(@, Hd(o))]
  IN  IF a.pc = "return" THEN [sent EXCEPT ![Len(sent)].ret = Some(a.r)] ELSE sent

\* ---------------------------------------------------- list_repos_for_user
ListUrl(owner, p) == <<GITHUB_API, "users", owner, "repos", p>>

\* Lines 60-64: the loop ends on an empty page or on a short one.
LastPageBug(items) == items = <<>> \/ Len(items) <= PER_PAGE
LastPage(items) == items = <<>> \/ Len(items) < PER_PAGE

\* Lines 57-58: the lister raises RuntimeError on a response that is not a 200.
ListerRaisesBug(r) == FALSE
ListerRaises(r) == r.status # HTTP_OK

\* The outcomes of a request for page p while the listing endpoint is in an
\* outage from page `from` on (0: no outage): no 200 from that page on.
Available(outcomes, from, p) ==
  IF from # 0 /\ p >= from THEN {o \in outcomes : o.status # HTTP_OK} ELSE outcomes

VARIABLES
  alphabet,     \* which answers the tree endpoint gives ("core" or "full")
  observe,      \* whether the histories mcalls and tcalls are kept
  outage,       \* the listing page from which on the upstream answers no 200 (0: none)
  account,      \* the upstream's repository records of the account
  workers,      \* --workers
  only_public,  \* --only-public
  mpc,          \* where the main flow is
  page,         \* list_repos_for_user: page
  repos,        \* list_repos_for_user: repos, then main: repos
  mact,         \* the main flow's activation of github_get
  mcalls,       \* history: the github_get calls of the lister
  tcalls,       \* history: the github_get calls of each task
  task,         \* one record per submitted future, in submission order
  all_rows,     \* main: all_rows
  csv,          \* the rows written to the CSV file, None while there is none
  xlsx,         \* whether the spreadsheet file was written
  now,          \* the clock, in ticks (TicksPerSecond ticks make a second)
  timer         \* the rate-limit wait of the call in mact: see NoTimer

vars == <<alphabet, observe, outage, account, workers, only_public, mpc, page, repos,
          mact, mcalls, tcalls, task, all_rows, csv, xlsx, now, timer>>

\* The header X-RateLimit-Reset of the rate-limit response, reset (line 39) and
\* the tick it was computed at, wait (line 40) and the tick the sleep began at.
NoTimer == [hdr |-> None, reset |-> None, read |-> None, wait |-> None, since |-> None]

\* The run's arguments and environment, and the clock, which the actions of the
\* run neither read nor set: the length of the sleeps does not matter to them.
args == <<alphabet, observe, outage, account, workers, only_public, now, timer>>

\* The runs that are not timed.
Untimed == outage = 0 /\ now = 0 /\ timer = NoTimer

\* The state at line 118, list_repos_for_user entered and about to request page 1.
Start(alpha, obs, first, n, w, op) ==
  /\ alphabet = alpha
  /\ observe = obs
  /\ account = Account(first, n)
  /\ workers = w
  /\ only_public = op
  /\ mpc = "list"
  /\ page = 1
  /\ repos = <<>>
  /\ mact = Call(ListUrl(Owner, 1))
  /\ mcalls = <<>>
  /\ tcalls = <<>>
  /\ task = <<>>
  /\ all_rows = <<>>
  /\ csv = None
  /\ xlsx = FALSE

\* Lines 56-66: a GET of the lister ends in outcome o.
ListerSend ==
  /\ mpc = "list"
  /\ mact.pc \in {"send1", "send2"}
  /\ \E o \in Available(ListOutcomes(account, page), outage, page) :
       LET a == github_get(mact, o)
       IN  /\ mcalls' = IF observe THEN Recorded(mcalls, mact, a, o) ELSE mcalls
           /\ IF a.pc = "sleep"
                THEN /\ mact' = a
                     /\ UNCHANGED <<mpc, page, repos>>
              ELSE IF a.pc = "raise" \/ ListerRaises(a.r)
                THEN \* the exception leaves list_repos_for_user and main
                     /\ mpc' = "fatal"
                     /\ mact' = Idle
                     /\ UNCHANGED <<page, repos>>
              ELSE /\ repos' = repos \o o.body
                   /\ IF LastPage(o.body)
                        THEN /\ mpc' = "listed"
                             /\ mact' = Idle
                             /\ page' = page
                        ELSE /\ mpc' = "list"
                             /\ page' = page + 1
                             /\ mact' = Call(ListUrl(Owner, page + 1))
  /\ UNCHANGED <<args, tcalls, task, all_rows, csv, xlsx>>

ListerWake ==
  /\ mpc = "list"
  /\ mact.pc = "sleep"
  /\ mact' = github_get_wake(mact)
  /\ UNCHANGED <<args, mpc, page, repos, mcalls, tcalls, task, all_rows, csv, xlsx>>

\* ------------------------------------------------------ get_tree_recursive
TreeUrl(owner, repo, ref) == <<GITHUB_API, "repos", owner, repo, "git", "trees">> \o ref

\* Line 77: the fully qualified form of a branch name.
QualifiedRef(branch) == <<"refs", "heads">> \o branch

\* Lines 76-81: what the walker does with the response r that github_get returned
\* for its direct (stage "direct") or qualified (stage "ref") request.
get_tree_recursive_bug(stage, r) ==
  IF stage = "direct" /\ r.status # HTTP_OK THEN "fallback"
  ELSE IF r.status # HTTP_OK THEN "raise"
  ELSE "return"
get_tree_recursive(stage, r) ==
  IF stage = "direct" /\ r.status = HTTP_NOT_FOUND THEN "fallback"
  ELSE IF r.status # HTTP_OK THEN "raise"
  ELSE "return"

\* ------------------------------------------------- build_raw_rows_for_repo
\* Line 86: repo_item.get("default_branch") or "main".
BranchOfBug(repo_item) ==
  IF repo_item.default_branch = None THEN <<"main">> ELSE repo_item.default_branch[1]
BranchOf(repo_item) ==
  IF repo_item.default_branch = None \/ repo_item.default_branch = Some(<<>>)
    THEN <<"main">>
    ELSE repo_item.default_branch[1]

\* The exceptions of a tree fetch: the RuntimeError of line 80 and what
\* requests.get raises.
RuntimeError(status) == [type |-> "RuntimeError", status |-> status]
TransportError == [type |-> "ConnectionError", status |-> 0]

\* Line 91.
ErrorRowBug(repo_name, branch, e) ==
  [repo |-> repo_name, path |-> None, size |-> None, branch |-> branch, raw_url |-> None]
ErrorRow(repo_name, branch, e) ==
  [repo |-> repo_name, path |-> None, size |-> None, branch |-> branch,
   raw_url |-> None, error |-> e]

\* Line 99.
RawUrlBug(owner, repo_name, branch, path) == <<RAW_HOST, owner, repo_name>> \o path
RawUrl(owner, repo_name, branch, path) == <<RAW_HOST, owner, repo_name>> \o branch \o path

\* Line 95: the nodes the loop keeps.
IsBlobBug(node) == node.type # "tree"
IsBlob(node) == node.type = "blob"

\* Lines 97-100.
BlobRow(owner, repo_name, branch, node) ==
  [repo |-> repo_name, path |-> Some(node.path), size |-> node.size, branch |-> branch,
   raw_url |-> Some(RawUrl(owner, repo_name, branch, node.path))]

\* Lines 93-101: the loop over the nodes of the tree.
BlobRowsBug(owner, repo_name, branch, nodes) ==
  [k \in 1..Len(nodes) |-> BlobRow(owner, repo_name, branch, nodes[k])]
RECURSIVE BlobRows(_, _, _, _)
BlobRows(owner, repo_name, branch, nodes) ==
  IF nodes = <<>> THEN <<>>
  ELSE LET rest == BlobRows(owner, repo_name, branch, Tail(nodes))
       IN  IF IsBlob(nodes[1])
             THEN <<BlobRow(owner, repo_name, branch, nodes[1])>> \o rest
             ELSE rest

\* A future of the pool and the task behind it. st is "pending" (queued),
\* "running", "returned" or "raised"; stage and act are where the running task is
\* in get_tree_recursive and github_get; walk is how get_tree_recursive ended; doc
\* is tree_json; result is what the task returned.
NewTask(repo_item) ==
  [repo |-> repo_item, st |-> "pending", stage |-> "none", act |-> Idle,
   walk |-> "none", doc |-> NoDoc, result |-> <<>>, collected |-> FALSE]

\* Lines 85-88: a worker thread enters the task.
Entered(t) ==
  [t EXCEPT !.st = "running", !.stage = "direct",
            !.act = Call(TreeUrl(Owner, t.repo.name, BranchOf(t.repo)))]

\* Lines 89-91: the tree fetch raised e.
CaughtBug(t, e) ==
  [t EXCEPT !.st = "returned", !.stage = "none", !.act = Idle, !.walk = "raised",
            !.result = <<>>]
Caught(t, e) ==
  [t EXCEPT !.st = "returned", !.stage = "none", !.act = Idle, !.walk = "raised",
            !.result = <<ErrorRow(t.repo.name, BranchOf(t.repo), e)>>]

\* Lines 93-101 on the document the walker returned: iterating the tree of a
\* body that is no tree document raises out of the task.
Built(t, doc) ==
  IF doc.kind # "tree"
    THEN [t EXCEPT !.st = "raised", !.stage = "none", !.act = Idle,
                   !.walk = "returned", !.doc = doc]
    ELSE [t EXCEPT !.st = "returned", !.stage = "none", !.act = Idle,
                   !.walk = "returned", !.doc = doc,
                   !.result = BlobRows(Owner, t.repo.name, BranchOf(t.repo), doc.tree)]

\* Lines 35/43, 74/78 and 87-91: an exception that requests.get raises leaves
\* github_get and get_tree_recursive and is caught by the except of the task.
TransportFailedBug(t) ==
  [t EXCEPT !.st = "raised", !.stage = "none", !.act = Idle, !.walk = "raised"]
TransportFailed(t) == Caught(t, TransportError)

\* The task after the GET it was about to issue ended in outcome o.
TaskStep(t, o) ==
  LET a == github_get(t.act, o)
  IN  IF a.pc = "sleep" THEN [t EXCEPT !.act = a]
      ELSE IF a.pc = "raise" THEN TransportFailed(t)
      ELSE CASE get_tree_recursive(t.stage, a.r) = "fallback" ->
                  [t EXCEPT !.stage = "ref",
                            !.act = Call(TreeUrl(Owner, t.repo.name,
                                                 QualifiedRef(BranchOf(t.repo))))]
             [] get_tree_recursive(t.stage, a.r) = "raise" ->
                  Caught(t, RuntimeError(a.r.status))
             [] OTHER -> Built(t, o.body)

\* ------------------------------------------------------------------- main
\* Line 120.
Filtered(rs, public_only) ==
  IF public_only THEN SelectSeq(rs, LAMBDA r : ~r.private) ELSE rs

\* Lines 119-124: the filter, then ThreadPoolExecutor(max_workers), which raises
\* ValueError unless max_workers > 0.
OpenPool ==
  /\ mpc = "listed"
  /\ repos' = Filtered(repos, only_public)
  /\ mpc' = IF workers <= 0 THEN "crashed" ELSE "submit"
  /\ UNCHANGED <<args, page, mact, mcalls, tcalls, task, all_rows, csv, xlsx>>

\* Line 125: ex.submit for the next repository.
Submit ==
  /\ mpc = "submit"
  /\ Len(task) < Len(repos)
  /\ task' = Append(task, NewTask(repos[Len(task) + 1]))
  /\ tcalls' = Append(tcalls, <<>>)
  /\ UNCHANGED <<args, mpc, page, repos, mact, mcalls, all_rows, csv, xlsx>>

\* Lines 125-126: every repository is submitted; as_completed starts.
EndSubmit ==
  /\ mpc = "submit"
  /\ Len(task) = Len(repos)
  /\ mpc' = "collect"
  /\ UNCHANGED <<args, page, repos, mact, mcalls, tcalls, task, all_rows, csv, xlsx>>

Running == {i \in 1..Len(task) : task[i].st = "running"}

\* ThreadPoolExecutor: a queued task starts when fewer than max_workers run.
IdleWorkerBug(running, max_workers) == TRUE
IdleWorkerStarved(running, max_workers) == running < max_workers - 1
IdleWorker(running, max_workers) == running < max_workers

\* A worker thread takes the oldest queued task (the pool's queue is FIFO).
StartTask(i) ==
  /\ task[i].st = "pending"
  /\ \A j \in 1..(i - 1) : task[j].st # "pending"
  /\ IdleWorker(Cardinality(Running), workers)
  /\ task' = [task EXCEPT ![i] = Entered(@)]
  /\ UNCHANGED <<args, mpc, page, repos, mact, mcalls, tcalls, all_rows, csv, xlsx>>

\* A GET of task i ends.
TaskSendBug(i) ==
  /\ task[i].st = "running"
  /\ task[i].act.pc \in {"send1", "send2"}
  /\ \E o \in TreeOutcomes(alphabet) :
       /\ task' = [task EXCEPT ![i] = TaskStep(@, o)]
       /\ all_rows' = all_rows \o TaskStep(task[i], o).result
       /\ tcalls' = IF observe
                      THEN [tcalls EXCEPT
                              ![i] = Recorded(@, task[i].act, github_get(task[i].act, o), o)]
                      ELSE tcalls
  /\ UNCHANGED <<args, mpc, page, repos, mact, mcalls, csv, xlsx>>
TaskSend(i) ==
  /\ task[i].st = "running"
  /\ task[i].act.pc \in {"send1", "send2"}
  /\ \E o \in TreeOutcomes(alphabet) :
       /\ task' = [task EXCEPT ![i] = TaskStep(@, o)]
       /\ tcalls' = IF observe
                      THEN [tcalls EXCEPT
                              ![i] = Recorded(@, task[i].act, github_get(task[i].act, o), o)]
                      ELSE tcalls
  /\ UNCHANGED <<args, mpc, page, repos, mact, mcalls, all_rows, csv, xlsx>>

\* The rate-limit sleep of task i ends.
TaskWake(i) ==
  /\ task[i].st = "running"
  /\ task[i].act.pc = "sleep"
  /\ task' = [task EXCEPT ![i].act = github_get_wake(@)]
  /\ UNCHANGED <<args, mpc, page, repos, mact, mcalls, tcalls, all_rows, csv, xlsx>>

\* Lines 130-131.
ExtendedBug(rows_so_far, rows) == rows
Extended(rows_so_far, rows) == IF rows # <<>> THEN rows_so_far \o rows ELSE rows_so_far

\* Line 126: as_completed yields a future once it is done.
CompletedBug(t) == TRUE
Completed(t) == t.st \in {"returned", "raised"}

\* Lines 126-134: as_completed yields a finished future; its rows are added, or
\* its exception is logged.
Collect(i) ==
  /\ mpc = "collect"
  /\ Completed(task[i])
  /\ ~task[i].collected
  /\ all_rows' = IF task[i].st = "returned" THEN Extended(all_rows, task[i].result)
                 ELSE all_rows
  /\ task' = [task EXCEPT ![i].collected = TRUE]
  /\ UNCHANGED <<args, mpc, page, repos, mact, mcalls, tcalls, csv, xlsx>>

\* Line 126: as_completed has yielded every future of futmap.
ExhaustedBug(futures) == futures = <<>> \/ \E i \in 1..Len(futures) : futures[i].collected
Exhausted(futures) == \A i \in 1..Len(futures) : futures[i].collected

\* Lines 126, 136: as_completed is exhausted and the pool is shut down.
Join ==
  /\ mpc = "collect"
  /\ Exhausted(task)
  /\ mpc' = "export"
  /\ UNCHANGED <<args, page, repos, mact, mcalls, tcalls, task, all_rows, csv, xlsx>>

\* Lines 142-146: the five columns of the output.
Columns(row) ==
  [repo |-> row.repo, path |-> row.path, size |-> row.size, branch |-> row.branch,
   raw_url |-> row.raw_url]

\* Line 136: `if not all_rows`.
NothingCollectedBug(rows) == FALSE
NothingCollected(rows) == rows = <<>>

\* Lines 136-160: nothing collected: exit(0); otherwise the CSV is written, and
\* then the spreadsheet, best effort.
Export ==
  /\ mpc = "export"
  /\ IF NothingCollected(all_rows)
       THEN /\ mpc' = "exit0"
            /\ csv' = csv
            /\ xlsx' = xlsx
       ELSE /\ mpc' = "done"
            /\ csv' = Some([k \in 1..Len(all_rows) |-> Columns(all_rows[k])])
            \* lines 155-160: the spreadsheet is written unless to_excel raises
            /\ xlsx' \in BOOLEAN
  /\ UNCHANGED <<args, page, repos, mact, mcalls, tcalls, task, all_rows>>

Next ==
  \/ ListerSend
  \/ ListerWake
  \/ OpenPool
  \/ Submit
  \/ EndSubmit
  \/ \E i \in 1..Len(task) : StartTask(i)
  \/ \E i \in 1..Len(task) : TaskSend(i)
  \/ \E i \in 1..Len(task) : TaskWake(i)
  \/ \E i \in 1..Len(task) : Collect(i)
  \/ Join
  \/ Export

\* A run on an account of up to MaxRepos repositories, with 0 to MaxWorkers
\* workers. The histories are not kept: the state is the program's alone.
Init ==
  \E n \in 0..MaxRepos, w \in 0..MaxWorkers, op \in BOOLEAN :
     Untimed /\ Start("core", FALSE, 1, n, w, op)
Spec == Init /\ [][Next]_vars

\* A run on an account of at most MaxWalks repositories (starting at any of the
\* three kinds of default_branch), one worker, the tree endpoint answering with
\* the full alphabet, and the histories of the github_get calls kept: the
\* specification of what one call of the client and one task do.
InitWalk ==
  \E first \in 1..3, n \in 0..MaxWalks :
     Untimed /\ Start("full", TRUE, first, n, 1, FALSE)
SpecWalk == InitWalk /\ [][Next]_vars

\* The lister alone, on accounts that fill up to MaxPages pages, its calls
\* recorded.
InitList ==
  \E n \in 0..(MaxPages * PER_PAGE) : Untimed /\ Start("core", TRUE, 1, n, 1, FALSE)
NextList == ListerSend \/ ListerWake
SpecList == InitList /\ [][NextList]_vars

\* ---------------------------------------------------- github_get, timed
\* One call of github_get on the clock. A GET ends in outcome o; a rate-limit
\* response makes the call read the reset header h (line 39).
ResetHeaders == {None} \cup {Some(sec) : sec \in 0..MaxReset}

ClockSend ==
  /\ mact.pc \in {"send1", "send2"}
  /\ \E o \in ListOutcomes(account, page) :
       LET a == github_get(mact, o)
       IN  /\ mact' = a
           /\ mcalls' = Recorded(mcalls, mact, a, o)
           /\ IF a.pc = "sleep"
                THEN \E h \in ResetHeaders :
                        timer' = [timer EXCEPT !.hdr = h,
                                               !.reset = Some(ResetOf(h, now)),
                                               !.read = Some(now)]
                ELSE timer' = timer
  /\ UNCHANGED <<alphabet, observe, outage, account, workers, only_public, now,
                 mpc, page, repos, tcalls, task, all_rows, csv, xlsx>>

\* Lines 40-42: the second reading of the clock, wait, and the start of the sleep.
ClockSleep ==
  /\ mact.pc = "sleep"
  /\ timer.wait = None
  /\ timer' = [timer EXCEPT !.wait = Some(Wait(timer.reset[1], now)), !.since = Some(now)]
  /\ UNCHANGED <<alphabet, observe, outage, account, workers, only_public, now,
                 mpc, page, repos, mact, mcalls, tcalls, task, all_rows, csv, xlsx>>

\* time.sleep(wait) returns once wait seconds have passed since it began.
SleepOver(tm, t) == t >= tm.since[1] + tm.wait[1] * TicksPerSecond

\* Time passes: up to MaxLag ticks between the two readings of the clock, and
\* during the sleep until at most MaxLag ticks after its end.
ClockTick ==
  /\ mact.pc = "sleep"
  /\ IF timer.wait = None
       THEN now < timer.read[1] + MaxLag
       ELSE now < timer.since[1] + timer.wait[1] * TicksPerSecond + MaxLag
  /\ now' = now + 1
  /\ UNCHANGED <<alphabet, observe, outage, account, workers, only_public, timer,
                 mpc, page, repos, mact, mcalls, tcalls, task, all_rows, csv, xlsx>>

\* Line 42 returns; line 43 is next.
ClockWake ==
  /\ mact.pc = "sleep"
  /\ timer.wait # None
  /\ SleepOver(timer, now)
  /\ mact' = github_get_wake(mact)
  /\ UNCHANGED <<args, mpc, page, repos, mcalls, tcalls, task, all_rows, csv, xlsx>>

\* One call of github_get that starts within the first three seconds of the
\* clock.
InitClock ==
  /\ outage = 0
  /\ now \in 0..(3 * TicksPerSecond - 1)
  /\ timer = NoTimer
  /\ Start("core", TRUE, 1, 0, 1, FALSE)
NextClock == ClockSend \/ ClockSleep \/ ClockTick \/ ClockWake
SpecClock == InitClock /\ [][NextClock]_vars

\* The steps of the main thread and of the worker thread that runs task i.
MainStep ==
  \/ ListerSend \/ ListerWake \/ OpenPool \/ Submit \/ EndSubmit
  \/ (\E i \in 1..Len(task) : Collect(i)) \/ Join \/ Export
WorkerStep(i) == i \in 1..Len(task) /\ (StartTask(i) \/ TaskSend(i) \/ TaskWake(i))

\* Every HTTP call returns or raises, every sleep ends and every thread that
\* can run does run.
Fairness ==
  /\ WF_vars(MainStep)
  /\ \A i \in 1..(MaxWalks + 1) : WF_vars(WorkerStep(i))

\* The whole run on an account of at most MaxWalks + 1 repositories, with any
\* pool size from 0 to MaxWorkers and with or without --only-public, under
\* these assumptions.
InitLive ==
  \E n \in 0..(MaxWalks + 1), w \in 0..MaxWorkers, op \in BOOLEAN :
     Untimed /\ Start("core", FALSE, 1, n, w, op)
SpecLive == InitLive /\ [][Next]_vars /\ Fairness

\* The number of pages the lister requests of an account of n repositories.
Pages(n) == (n \div PER_PAGE) + 1

\* The whole run, its calls recorded, either on an account of at most MaxWalks
\* repositories, or on an account of up to MaxPages full pages whose listing
\* endpoint stops answering 200 at one of the pages the lister requests.
InitOutage ==
  \/ \E n \in 0..MaxWalks : Untimed /\ Start("core", TRUE, 1, n, 1, FALSE)
  \/ \E n \in 0..(MaxPages * PER_PAGE) :
       /\ outage \in 1..Pages(n)
       /\ now = 0 /\ timer = NoTimer
       /\ Start("core", TRUE, 1, n, 1, FALSE)
SpecOutage == InitOutage /\ [][Next]_vars

\* The whole run on an account of at most MaxWalks + 1 repositories with any
\* pool size up to MaxWorkers, against an upstream that finds every branch it
\* is asked for, the calls recorded.
InitRace ==
  \E n \in 0..(MaxWalks + 1), w \in 1..MaxWorkers :
     Untimed /\ Start("plain", TRUE, 1, n, w, FALSE)
SpecRace == InitRace /\ [][Next]_vars

\* ================================================================ claims
\* The positions of main after the as_completed loop and the pool's shutdown.
AfterCollect == {"export", "exit0", "done"}

\* The rows of the aggregate that carry a repository's name.
RowsOf(name) == SelectSeq(all_rows, LAMBDA row : row.repo = name)

Finished(i) == task[i].st \in {"returned", "raised"}

\* The branch a repository's task works with, as the documentation of the
\* output states it: the default branch, "main" when it is missing or empty.
DefaultBranch(item) ==
  CASE item.default_branch = None -> <<"main">>
    [] item.default_branch = Some(<<>>) -> <<"main">>
    [] OTHER -> item.default_branch[1]

\* C1: once the as_completed loop is over, every task has completed (returned
\* or raised), and for every repository whose task returned, the aggregate holds
\* exactly the rows that task returned, in their order, whatever the other tasks
\* did and in whatever order the tasks completed and were collected.
C1_FailureIsolation ==
  mpc \in AfterCollect =>
    /\ Len(task) = Len(repos)
    /\ \A i \in 1..Len(task) :
         /\ Finished(i)
         /\ task[i].st = "returned" => RowsOf(task[i].repo.name) = task[i].result

\* C1's case: a task that raised, a task whose tree fetch failed and a task that
\* returned file rows, collected against the submission order.
C1_Witness ==
  /\ mpc = "export"
  /\ \E i, j, k \in 1..Len(task) :
       /\ task[i].st = "raised"
       /\ task[j].st = "returned" /\ task[j].walk = "raised"
       /\ task[k].st = "returned" /\ task[k].walk = "returned" /\ task[k].result # <<>>
       /\ j < k
       /\ all_rows = task[k].result \o task[j].result

\* C2: in every state at most --workers tasks are inside build_raw_rows_for_repo,
\* those asleep in a rate-limit backoff included.
C2_ConcurrencyBound == Cardinality(Running) <= workers

\* C2's case: more repositories than workers, every worker busy, one of them in
\* the backoff sleep, and a task still queued.
C2_Witness ==
  /\ workers >= 2
  /\ Len(task) > workers
  /\ Cardinality(Running) = workers
  /\ \E i \in Running : task[i].act.pc = "sleep"
  /\ \E i \in 1..Len(task) : task[i].st = "pending"

\* A rate-limit response, as the documentation of the client states it.
RateLimitResponse(g) ==
  ~g.exc /\ g.status = HTTP_FORBIDDEN /\ g.remaining = Some("0")

\* A call of the history h of a caller whose activation is act is over unless it
\* is the last one and the caller is asleep or about to retry.
CallOver(h, k, act) == ~(k = Len(h) /\ act.pc \in {"sleep", "send2"})

CallObeysRetryBound(h, k, act) ==
  LET c == h[k]
  IN  /\ Len(c.gets) \in {1, 2}
      /\ Len(c.gets) = 2 => RateLimitResponse(c.gets[1])
      /\ ~CallOver(h, k, act) => Len(c.gets) = 1 /\ RateLimitResponse(c.gets[1])
      /\ CallOver(h, k, act) /\ RateLimitResponse(c.gets[1]) => Len(c.gets) = 2
      /\ c.ret # None => c.ret = Some(c.gets[Len(c.gets)])
      /\ CallOver(h, k, act) /\ ~c.gets[Len(c.gets)].exc => c.ret # None

\* C3: every call of github_get, by the lister or by a task, issues one or two
\* GETs; the second is issued if and only if the first response is 403 with
\* X-RateLimit-Remaining "0"; the call returns the response of its last GET
\* unchanged, whatever it is.
C3_SingleRetry ==
  /\ \A k \in 1..Len(mcalls) : CallObeysRetryBound(mcalls, k, mact)
  /\ \A i \in 1..Len(task) :
       \A k \in 1..Len(tcalls[i]) : CallObeysRetryBound(tcalls[i], k, task[i].act)

\* C3's case: a task whose direct call returned, after one GET, a 404 that used
\* the quota up, and whose qualified call was rate-limited on both GETs and
\* returned the second response.
C3_Witness ==
  \E i \in 1..Len(task) :
    /\ Finished(i)
    /\ Len(tcalls[i]) = 2
    /\ tcalls[i][1].gets =
         <<[exc |-> FALSE, status |-> HTTP_NOT_FOUND, remaining |-> Some("0")]>>
    /\ Len(tcalls[i][2].gets) = 2
    /\ RateLimitResponse(tcalls[i][2].gets[2])
    /\ tcalls[i][2].ret = Some(tcalls[i][2].gets[2])

\* The responses a task obtained, in order.
ResponsesOf(h) ==
  LET all == IF Len(h) = 0 THEN <<>>
             ELSE IF Len(h) = 1 THEN h[1].gets
             ELSE h[1].gets \o h[2].gets
  IN  SelectSeq(all, LAMBDA g : ~g.exc)

LastIs200(h) ==
  LET rs == ResponsesOf(h)
  IN  rs # <<>> /\ rs[Len(rs)].status = HTTP_OK

Returned404(c) == c.ret # None /\ c.ret[1].status = HTTP_NOT_FOUND

\* C4: a tree walk calls the client for the direct URL; it calls it once more,
\* for refs/heads/<branch>, exactly when the direct call returned 404, and never
\* a third time; the walk returns exactly when the last response it obtained is
\* a 200, and raises otherwise.
C4_BranchFallback ==
  \A i \in 1..Len(task) :
    LET h == tcalls[i]
        t == task[i]
    IN  /\ Len(h) <= 2
        /\ Len(h) >= 1 =>
             h[1].url = TreeUrl(Owner, t.repo.name, DefaultBranch(t.repo))
        /\ Len(h) = 2 =>
             /\ Returned404(h[1])
             /\ h[2].url = <<GITHUB_API, "repos", Owner, t.repo.name, "git", "trees",
                             "refs", "heads">> \o DefaultBranch(t.repo)
        /\ Finished(i) =>
             /\ Len(h) >= 1
             /\ Returned404(h[1]) => Len(h) = 2
             /\ t.walk = "returned" <=> LastIs200(h)
             /\ t.walk = "raised" <=> ~LastIs200(h)

\* C4's case: the direct request answered 404, the follow-up answered 404 too,
\* and the walk raised.
C4_Witness ==
  \E i \in 1..Len(task) :
    /\ Finished(i)
    /\ Len(tcalls[i]) = 2
    /\ Returned404(tcalls[i][1])
    /\ Returned404(tcalls[i][2])
    /\ Len(tcalls[i][2].gets) = 1
    /\ task[i].walk = "raised"

\* The ref of the request that a task's last call of the client went to.
RefUsed(i) ==
  LET url == tcalls[i][Len(tcalls[i])].url
  IN  SubSeq(url, 7, Len(url))

FetchSucceeded(i) == Finished(i) /\ task[i].walk = "returned" /\ task[i].st = "returned"

SuccessRowShape(row, name) ==
  /\ row.repo = name
  /\ row.path # None
  /\ row.raw_url # None
  /\ Get(row, "error") = None

\* C5 as stated: every row of a repository whose tree fetch succeeded has a path
\* and a url and no error, and the url is the template filled with the account,
\* the repository's name, the ref of the request that obtained the tree (the
\* branch, or refs/heads/<branch> after the fallback) and the path.
C5_UrlOfRefUsed ==
  \A i \in 1..Len(task) :
    FetchSucceeded(i) =>
      \A k \in 1..Len(task[i].result) :
        LET row == task[i].result[k]
        IN  /\ SuccessRowShape(row, task[i].repo.name)
            /\ row.raw_url = Some(<<RAW_HOST, Owner, task[i].repo.name>>
                                    \o RefUsed(i) \o row.path[1])

\* C5 as amended: the url is the template filled with the account, the
\* repository's name, the repository's default branch ("main" when it is missing
\* or empty), unqualified whichever attempt obtained the tree, and the path of a
\* node of the tree, unchanged.
C5_UrlOfDefaultBranch ==
  \A i \in 1..Len(task) :
    FetchSucceeded(i) =>
      \A k \in 1..Len(task[i].result) :
        LET row == task[i].result[k]
        IN  /\ SuccessRowShape(row, task[i].repo.name)
            /\ row.raw_url = Some(<<RAW_HOST, Owner, task[i].repo.name>>
                                    \o DefaultBranch(task[i].repo) \o row.path[1])
            /\ \E n \in 1..Len(task[i].doc.tree) : task[i].doc.tree[n].path = row.path[1]

\* C5's case: a tree obtained through the refs/heads fallback, with file rows, of
\* a repository without a default branch.
C5_Witness ==
  \E i \in 1..Len(task) :
    /\ FetchSucceeded(i)
    /\ Len(tcalls[i]) = 2
    /\ task[i].repo.default_branch = None
    /\ Len(task[i].result) = 2
    /\ task[i].result[2].raw_url =
         Some(<<RAW_HOST, Owner, task[i].repo.name, "main", "src", "a b.py">>)

\* The tree fetch of a finished task failed on the statuses it was answered
\* with: the direct call returned neither 200 nor 404, or it returned 404 and the
\* qualified call did not return a 200.
FetchFailed(i) ==
  LET h == tcalls[i]
  IN  /\ Finished(i)
      /\ \/ /\ Len(h) = 1
            /\ h[1].ret # None
            /\ h[1].ret[1].status \notin {HTTP_OK, HTTP_NOT_FOUND}
         \/ /\ Len(h) = 2
            /\ Returned404(h[1])
            /\ ~(h[2].ret # None /\ h[2].ret[1].status = HTTP_OK)

\* C6: a repository whose tree fetch failed gets exactly one row, with the
\* repository's name, no path, size and raw_url, the branch attempted and an
\* error, and no other row.
C6_OneErrorRow ==
  \A i \in 1..Len(task) :
    FetchFailed(i) =>
      /\ task[i].st = "returned"
      /\ Len(task[i].result) = 1
      /\ LET row == task[i].result[1]
         IN  /\ row.repo = task[i].repo.name
             /\ row.path = None
             /\ row.size = None
             /\ row.raw_url = None
             /\ row.branch = DefaultBranch(task[i].repo)
             /\ Get(row, "error") # None

\* C6's case: the direct attempt answered 404 and the qualified one 500.
C6_Witness ==
  \E i \in 1..Len(task) :
    /\ FetchFailed(i)
    /\ Len(tcalls[i]) = 2
    /\ tcalls[i][2].ret # None
    /\ tcalls[i][2].ret[1].status = HTTP_SERVER_ERROR
    /\ task[i].result[1].error = [type |-> "RuntimeError", status |-> HTTP_SERVER_ERROR]

\* C7 as stated: after the loop the aggregate holds at least one row of every
\* repository a task was submitted for.
C7_EveryRepoHasRow ==
  mpc \in AfterCollect =>
    \A i \in 1..Len(task) : RowsOf(task[i].repo.name) # <<>>

HasBlob(doc) == \E n \in 1..Len(doc.tree) : doc.tree[n].type = "blob"

\* C7 as amended: after the loop the aggregate holds a row of a repository
\* exactly when its tree fetch failed (then it is the one error row) or its tree
\* holds a blob node; a repository whose tree holds no blob node, or whose task
\* raised, has no row.
C7_RepoHasRowUnlessEmptyOrRaised ==
  mpc \in AfterCollect =>
    \A i \in 1..Len(task) :
      LET rows == RowsOf(task[i].repo.name)
      IN  /\ rows # <<>> <=>
               \/ task[i].walk = "raised"
               \/ task[i].st = "returned" /\ HasBlob(task[i].doc)
          /\ task[i].walk = "raised" => Len(rows) = 1 /\ Get(rows[1], "error") # None
          /\ task[i].st = "raised" => rows = <<>>

\* C7's case: a repository whose tree holds no blob, one whose task raised and
\* one whose tree fetch failed, all collected.
C7_Witness ==
  /\ mpc \in AfterCollect
  /\ \E i, j, k \in 1..Len(task) :
       /\ task[i].st = "returned" /\ task[i].walk = "returned"
       /\ task[i].doc = Doc("tree", DirOnlyTree)
       /\ task[j].st = "raised"
       /\ task[k].walk = "raised"
       /\ Len(all_rows) = 1

\* C8: in every state every row of the aggregate has a path and a raw_url, or it
\* has an error, and never both nor neither.
C8_RowShape ==
  \A k \in 1..Len(all_rows) :
    LET row == all_rows[k]
        located == row.path # None /\ row.raw_url # None
        failed == Get(row, "error") # None
    IN  (located \/ failed) /\ ~(located /\ failed)

\* C8's case: the aggregate holds a file row and an error row.
C8_Witness ==
  \E k, l \in 1..Len(all_rows) :
    /\ all_rows[k].path # None
    /\ Get(all_rows[l], "error") # None

\* C9: the rows of a fetched tree are its blob nodes, one row each, in the order
\* of the tree; a node of another type has no row.
C9_BlobFilter ==
  \A i \in 1..Len(task) :
    FetchSucceeded(i) =>
      LET blobs == SelectSeq(task[i].doc.tree, LAMBDA node : node.type = "blob")
      IN  /\ Len(task[i].result) = Len(blobs)
          /\ \A k \in 1..Len(blobs) :
               /\ task[i].result[k].path = Some(blobs[k].path)
               /\ task[i].result[k].size = blobs[k].size

\* C9's case: a tree of two blobs, a directory and a submodule link.
C9_Witness ==
  \E i \in 1..Len(task) :
    /\ FetchSucceeded(i)
    /\ task[i].doc = Doc("tree", MixedTree)
    /\ Len(task[i].result) = 2

\* Every GET of the lister so far was answered 200.
EveryPage200 ==
  \A k \in 1..Len(mcalls) :
    \A g \in 1..Len(mcalls[k].gets) :
      ~mcalls[k].gets[g].exc /\ mcalls[k].gets[g].status = HTTP_OK

\* C10: the lister requests the pages 1, 2, ... in this order, one call each;
\* when every page is answered 200 it ends after floor(T / PER_PAGE) + 1 page
\* requests, one GET each, and returns the T records of the account in the
\* order of the pages.
C10_Pagination ==
  /\ \A k \in 1..Len(mcalls) : mcalls[k].url = <<GITHUB_API, "users", Owner, "repos", k>>
  /\ mpc = "listed" /\ EveryPage200 =>
       /\ Len(mcalls) = (Len(account) \div PER_PAGE) + 1
       /\ \A k \in 1..Len(mcalls) : Len(mcalls[k].gets) = 1
       /\ repos = account
  /\ mpc = "list" /\ EveryPage200 =>
       /\ Len(mcalls) <= Len(account) \div PER_PAGE
       /\ repos = SubSeq(account, 1, Len(mcalls) * PER_PAGE)

\* C10's case: an account that fills two pages exactly, so that a third, empty
\* page ends the listing.
C10_Witness ==
  /\ mpc = "listed"
  /\ EveryPage200
  /\ Len(account) = 2 * PER_PAGE
  /\ Len(mcalls) = 3
  /\ repos = account


\* Some call of the lister returned a response that is not a 200.
ListingFailed ==
  \E k \in 1..Len(mcalls) :
     mcalls[k].ret # None /\ mcalls[k].ret[1].status # HTTP_OK

\* C11: once a listing page, the first or a later one, has returned a status
\* other than 200, the run is over with the lister's exception: main never gets
\* a list of repositories, no task is submitted, no tree request is issued, no
\* row is collected and no output is written.
C11_ListingFailureIsFatal ==
  ListingFailed =>
     /\ mpc = "fatal"
     /\ task = <<>>
     /\ tcalls = <<>>
     /\ all_rows = <<>>
     /\ csv = None /\ ~xlsx

\* The second page failed after the first page had delivered its PER_PAGE items.
C11_Witness ==
  /\ ListingFailed
  /\ mpc = "fatal"
  /\ Len(mcalls) = 2
  /\ mcalls[1].ret # None /\ mcalls[1].ret[1].status = HTTP_OK
  /\ Len(repos) = PER_PAGE

\* A GET of task i's tree fetch ended in a transport-level exception.
TransportRaised(i) ==
  \E k \in 1..Len(tcalls[i]) :
     \E g \in 1..Len(tcalls[i][k].gets) : tcalls[i][k].gets[g].exc

\* C12 as stated: a task whose tree fetch met a transport exception ends by
\* raising, and its repository has no row in the aggregate.
C12_TransportLeavesTask ==
  mpc \in AfterCollect =>
    \A i \in 1..Len(task) :
      TransportRaised(i) =>
        task[i].st = "raised" /\ RowsOf(task[i].repo.name) = <<>>

\* C12: a transport exception during a repository's tree fetch is caught inside
\* the task, which returns one error row with the exception's text and the
\* branch attempted; after the loop the aggregate holds exactly that row for the
\* repository, and every other task has completed.
C12_TransportBecomesErrorRow ==
  \A i \in 1..Len(task) :
    TransportRaised(i) =>
      LET row == ErrorRow(task[i].repo.name, DefaultBranch(task[i].repo), TransportError)
      IN  /\ task[i].st = "returned"
          /\ task[i].result = <<row>>
          /\ mpc \in AfterCollect =>
                /\ RowsOf(task[i].repo.name) = <<row>>
                /\ \A j \in 1..Len(task) : Finished(j)

\* A transport exception on the retry after a rate limit in the first of two
\* tasks; the second task returned file rows and both were collected.
C12_Witness ==
  /\ mpc = "export"
  /\ Len(task) = 2
  /\ TransportRaised(1)
  /\ Len(tcalls[1][1].gets) = 2
  /\ ~TransportRaised(2)
  /\ task[2].st = "returned"
  /\ Len(RowsOf(task[2].repo.name)) >= 1
  /\ RowsOf(task[2].repo.name)[1].path # None

\* C13: a run that reaches the end of the collection with no row exits with
\* status 0 and writes no output, which is the case of every account without
\* repositories; an output exists only once the run is done with at least one
\* collected row, and it has one line per collected row.
C13_EmptyResult ==
  /\ mpc = "exit0" =>
        /\ all_rows = <<>>
        /\ csv = None
        /\ ~xlsx
        /\ \A i \in 1..Len(task) : Finished(i) /\ task[i].collected
  /\ mpc = "done" => csv # None
  /\ csv # None \/ xlsx =>
        /\ mpc = "done"
        /\ csv # None
        /\ all_rows # <<>>
        /\ Len(csv[1]) = Len(all_rows)
  /\ account = <<>> /\ mpc \in AfterCollect => all_rows = <<>> /\ mpc # "done"

\* Two repositories and still no row: one task raised, the other returned an
\* empty list; the run exited without output.
C13_Witness ==
  /\ mpc = "exit0"
  /\ csv = None /\ ~xlsx
  /\ Len(task) = 2
  /\ \E i, j \in 1..2 :
       /\ task[i].st = "raised"
       /\ task[j].st = "returned"
       /\ task[j].result = <<>>

\* The number of occurrences of x in the sequence s.
Count(x, s) == Cardinality({k \in 1..Len(s) : s[k] = x})

\* Whether two sequences hold the same elements the same number of times.
SameMultiset(s, t) ==
  /\ Len(s) = Len(t)
  /\ \A k \in 1..Len(s) : Count(s[k], s) = Count(s[k], t)

\* The rows the documentation promises for a repository, given only what the
\* upstream answered to its tree requests: one error row when the last request
\* failed, the rows of the blobs of the tree when it delivered a tree, none when
\* it delivered a document without a tree (and none as long as nothing was
\* requested).
RowsFor(item, h, doc) ==
  LET branch == DefaultBranch(item)
      last == h[Len(h)]
      blobs == SelectSeq(doc.tree, LAMBDA nd : nd.type = "blob")
  IN  IF h = <<>> THEN <<>>
      ELSE IF last.ret = None
        THEN <<ErrorRow(item.name, branch, TransportError)>>
      ELSE IF last.ret[1].status # HTTP_OK
        THEN <<ErrorRow(item.name, branch, RuntimeError(last.ret[1].status))>>
      ELSE IF doc.kind # "tree" THEN <<>>
      ELSE [k \in 1..Len(blobs) |-> BlobRow(Owner, item.name, branch, blobs[k])]

\* The rows promised for the first n listed repositories, in listing order.
RECURSIVE RowsForAll(_)
RowsForAll(n) ==
  IF n = 0 THEN <<>>
  ELSE RowsForAll(n - 1) \o RowsFor(repos[n], tcalls[n], task[n].doc)

\* C14: after the collection the aggregate is, as a multiset, a function of the
\* listed repositories and of the upstream's answers to each repository's tree
\* requests alone; the pool size, the interleaving of the tasks and the order of
\* their completion and collection have no part in it. Two runs that get the
\* same answers therefore export the same multiset of rows.
C14_DeterminismUpToOrder ==
  mpc \in AfterCollect =>
    /\ Len(task) = Len(repos)
    /\ SameMultiset(all_rows, RowsForAll(Len(repos)))
    /\ csv # None => SameMultiset(csv[1], [k \in 1..Len(all_rows) |-> Columns(all_rows[k])])

\* Two repositories on two workers, both delivering file rows, the second
\* collected first: the aggregate is not in listing order.
C14_Witness ==
  /\ mpc = "done"
  /\ workers = 2
  /\ Len(task) = 2
  /\ Len(all_rows) = 4
  /\ all_rows[1].repo = task[2].repo.name
  /\ all_rows[3].repo = task[1].repo.name
  /\ all_rows # RowsForAll(2)

\* C15: the wait of a rate-limited call is max(5, reset - now + 3) seconds, with
\* now the clock in whole seconds and reset the header's value, or the clock in
\* whole seconds plus 60 when the header is missing; it is at least 13 when the
\* reset is 10 seconds or more ahead, and exactly 5 when the reset is past or
\* less than 2 seconds ahead; the retry, the only one, is issued only once the
\* wait has passed since the sleep began.
C15_Backoff ==
  timer.wait # None =>
    LET w == timer.wait[1]
        t == timer.since[1]
        rs == timer.reset[1]
    IN  /\ w = Max(5, rs - Seconds(t) + 3)
        /\ timer.hdr # None => rs = timer.hdr[1]
        /\ timer.hdr = None => rs = Seconds(timer.read[1]) + 60
        /\ rs * TicksPerSecond >= t + 10 * TicksPerSecond => w >= 13
        /\ rs * TicksPerSecond < t + 2 * TicksPerSecond => w = 5
        /\ Len(mcalls[1].gets) <= 2
        /\ mact.pc = "send2" \/ Len(mcalls[1].gets) = 2 =>
              now >= t + w * TicksPerSecond

\* The reset is a second and a half ahead when the sleep begins; the call slept
\* five seconds, retried and returned.
C15_Witness ==
  /\ timer.hdr = Some(2)
  /\ timer.since = Some(1)
  /\ timer.wait = Some(5)
  /\ mact.pc = "return"
  /\ Len(mcalls[1].gets) = 2
  /\ now = 1 + 5 * TicksPerSecond

\* C16 as stated: every run eventually ends completed (exported, or exited on
\* an empty result) or with the fatal error of the listing.
C16_EndsCompleteOrListingError == <>(mpc \in {"done", "exit0", "fatal"})

\* C16: every run eventually ends: completed (exported, or exited on an empty
\* result), with the fatal error of the listing, or with the error of a pool
\* size below 1, which is raised before any task is submitted; a failed tree
\* fetch or a task that raised never ends the run that way.
C16_Termination ==
  /\ <>(mpc \in {"done", "exit0", "fatal", "crashed"})
  /\ [](mpc = "crashed" => workers < 1 /\ task = <<>>)

\* A run that completed although one task raised and the tree fetch of the
\* other failed.
C16_Witness ==
  /\ mpc = "done"
  /\ Len(task) = 2
  /\ \E i, j \in 1..2 :
       /\ task[i].st = "raised"
       /\ task[j].walk = "raised"
       /\ task[j].st = "returned"

\* The positions of main from the end of the submissions on.
AfterSubmit == {"collect"} \cup AfterCollect

\* C17 as stated: once the submissions are over there is exactly one task per
\* listed repository, in listing order.
C17_OneTaskPerListed ==
  mpc \in AfterSubmit =>
    /\ Len(task) = Len(account)
    /\ \A i \in 1..Len(task) : task[i].repo = account[i]

\* The listed repositories that pass the --only-public filter.
Retained == SelectSeq(account, LAMBDA item : only_public => ~item.private)

\* C17: a task exists only after the listing has returned and the pool was
\* created; the tasks are, in listing order, one per listed repository that
\* passes the --only-public filter, all of them once the submissions are over;
\* from the empty check of the export on every task has completed and was
\* collected, so none is pending or running when the output is written.
C17_StageOrder ==
  /\ task # <<>> => mpc \in {"submit"} \cup AfterSubmit
  /\ Len(task) <= Len(Retained)
  /\ \A i \in 1..Len(task) : task[i].repo = Retained[i]
  /\ mpc \in AfterSubmit => Len(task) = Len(Retained)
  /\ mpc \in {"list", "listed", "submit"} =>
        all_rows = <<>> /\ \A i \in 1..Len(task) : ~task[i].collected
  /\ mpc \in AfterCollect \/ csv # None \/ xlsx =>
        \A i \in 1..Len(task) : Finished(i) /\ task[i].collected

\* The filter dropped the private one of three listed repositories; the two
\* tasks completed and the CSV was written.
C17_Witness ==
  /\ mpc = "done"
  /\ csv # None
  /\ only_public
  /\ Len(account) = 3
  /\ Len(task) = 2
  /\ \A i \in 1..2 : Finished(i)

\* Task i is touched by a step: its state, its activation of github_get, its
\* document or its result changes.
TaskMoves(i) ==
  \/ task'[i].st # task[i].st
  \/ task'[i].stage # task[i].stage
  \/ task'[i].act # task[i].act
  \/ task'[i].doc # task[i].doc
  \/ task'[i].result # task[i].result

\* C18: a step of a worker task changes nothing but that task: not the
\* aggregate, not the list of repositories, not its own repository record, not
\* another task; the aggregate changes only in a step of the main flow's
\* collection, which appends the rows of one completed, not yet collected task,
\* whole and once.
C18_TasksShareNothing ==
  [][ /\ \A i \in 1..Len(task) :
            TaskMoves(i) =>
              /\ all_rows' = all_rows
              /\ repos' = repos
              /\ mpc' = mpc
              /\ task'[i].repo = task[i].repo
              /\ task'[i].collected = task[i].collected
              /\ \A j \in 1..Len(task) : j # i => task'[j] = task[j]
      /\ all_rows' # all_rows =>
            /\ mpc = "collect"
            /\ \E i \in 1..Len(task) :
                  /\ task[i].st = "returned"
                  /\ ~task[i].collected
                  /\ task'[i].collected
                  /\ task'[i].result = task[i].result
                  /\ all_rows' = all_rows \o task[i].result
    ]_vars

\* The rows of one task are in the aggregate while another task is still in a
\* request of its tree fetch.
C18_Witness ==
  /\ mpc = "collect"
  /\ all_rows # <<>>
  /\ \E i, j \in 1..Len(task) :
       /\ task[i].collected
       /\ task[i].result # <<>>
       /\ task[j].st = "running"
       /\ task[j].act.pc = "send2"

\* The URLs of the GETs of a history of calls, one per GET, in the order issued.
RECURSIVE GetUrls(_)
GetUrls(h) ==
  IF h = <<>> THEN <<>>
  ELSE GetUrls(SubSeq(h, 1, Len(h) - 1))
         \o [g \in 1..Len(h[Len(h)].gets) |-> h[Len(h)].url]

\* C19: a repository's task issues at most 4 GETs, at least 1 once it has
\* completed: at most 2 for the direct URL .../git/trees/<branch>, then at most
\* 2 for .../git/trees/refs/heads/<branch>; the first GET for the qualified URL
\* comes only after a GET for the direct URL was answered 404 and that answer
\* returned, and no GET for the direct URL comes after one for the qualified URL.
C19_RequestBound ==
  \A i \in 1..Len(task) :
    LET urls == GetUrls(tcalls[i])
        direct == <<GITHUB_API, "repos", Owner, task[i].repo.name, "git", "trees">>
                     \o DefaultBranch(task[i].repo)
        qualified == <<GITHUB_API, "repos", Owner, task[i].repo.name, "git", "trees",
                       "refs", "heads">> \o DefaultBranch(task[i].repo)
        Direct == {g \in 1..Len(urls) : urls[g] = direct}
        Qualified == {g \in 1..Len(urls) : urls[g] = qualified}
    IN  /\ Len(urls) <= 4
        /\ Finished(i) => Len(urls) >= 1
        /\ Direct \cup Qualified = 1..Len(urls)
        /\ Cardinality(Direct) <= 2
        /\ Cardinality(Qualified) <= 2
        /\ \A d \in Direct, q \in Qualified : d < q
        /\ Qualified # {} =>
              LET last == tcalls[i][1].gets[Len(tcalls[i][1].gets)]
              IN  /\ ~last.exc
                  /\ last.status = HTTP_NOT_FOUND
                  /\ tcalls[i][1].ret = Some(last)

\* Four GETs: the direct URL rate-limited and then 404, the qualified URL
\* rate-limited and then answered.
C19_Witness ==
  \E i \in 1..Len(task) :
    /\ Finished(i)
    /\ Len(GetUrls(tcalls[i])) = 4
    /\ GetUrls(tcalls[i])[2] # GetUrls(tcalls[i])[3]
    /\ task[i].walk = "returned"

\* The row names its repository's default branch ("main" when the repository
\* has none or an empty one), and so does its raw_url, if it has one, right
\* after the host, the account and the repository.
RowKeepsBranch(row, item) ==
  LET branch == DefaultBranch(item)
  IN  /\ row.branch = branch
      /\ row.raw_url # None =>
            /\ Len(row.raw_url[1]) = 3 + Len(branch) + Len(row.path[1])
            /\ SubSeq(row.raw_url[1], 1, 3) = <<RAW_HOST, Owner, item.name>>
            /\ SubSeq(row.raw_url[1], 4, 3 + Len(branch)) = branch

\* C20: every row a task returned and every row of the aggregate, error row or
\* file row, carries the default branch of its repository, "main" when it is
\* missing or empty, and every file row's raw_url embeds this same unqualified
\* branch, whether the tree came from the direct or from the refs/heads request.
C20_BranchOfRow ==
  /\ \A i \in 1..Len(task) :
       \A k \in 1..Len(task[i].result) : RowKeepsBranch(task[i].result[k], task[i].repo)
  /\ \A k \in 1..Len(all_rows) :
       \E i \in 1..Len(task) :
         /\ task[i].repo.name = all_rows[k].repo
         /\ RowKeepsBranch(all_rows[k], task[i].repo)

\* File rows, in the aggregate, of a repository with an empty default_branch
\* whose tree was obtained by the refs/heads request.
C20_Witness ==
  \E i \in 1..Len(task) :
    /\ task[i].repo.default_branch = Some(<<>>)
    /\ Len(tcalls[i]) = 2
    /\ task[i].walk = "returned"
    /\ task[i].collected
    /\ Len(all_rows) >= 1
    /\ all_rows[1].path # None
    /\ all_rows[1].branch = <<"main">>
====
